---- MODULE Spec2Model ----
(***************************************************************************)
(* Model of pack_struct.py / pack_structs.py: the storage width of a       *)
(* Solidity variable (Variable.num_bits), the slot count of an ordering    *)
(* (VariablesPermutation.num_slots, calc_num_slots), the order on          *)
(* orderings (VariablesPermutation.__lt__) and the exhaustive search of    *)
(* main().                                                                 *)
(*                                                                         *)
(* A Python str is modelled as the sequence of its characters, each a      *)
(* one-character string, so that slicing, prefix tests, str.isdigit and    *)
(* int() are computed character by character as Python computes them.      *)
(***************************************************************************)
EXTENDS Integers, Sequences, FiniteSets

\* ------------------------------------------------------------------ str

\* The code points of the characters that occur in the modelled inputs.
code_points ==
    [c \in {"0", "1", "2", "3", "4", "5", "6", "7", "8", "9", "B", "[", "]",
             "a", "b", "c", "d", "e", "f", "g", "i", "l", "n", "o", "r", "s",
             "t", "u", "v", "x", "y", "z"} |->
        CASE c = "0" -> 48 [] c = "1" -> 49 [] c = "2" -> 50 [] c = "3" -> 51
          [] c = "4" -> 52 [] c = "5" -> 53 [] c = "6" -> 54 [] c = "7" -> 55
          [] c = "8" -> 56 [] c = "9" -> 57
          [] c = "B" -> 66 [] c = "[" -> 91 [] c = "]" -> 93
          [] c = "a" -> 97 [] c = "b" -> 98 [] c = "c" -> 99 [] c = "d" -> 100
          [] c = "e" -> 101 [] c = "f" -> 102 [] c = "g" -> 103 [] c = "i" -> 105
          [] c = "l" -> 108 [] c = "n" -> 110 [] c = "o" -> 111 [] c = "r" -> 114
          [] c = "s" -> 115 [] c = "t" -> 116 [] c = "u" -> 117 [] c = "v" -> 118
          [] c = "x" -> 120 [] c = "y" -> 121 [] c = "z" -> 122]

\* ord(c)
ord(c) == code_points[c]

\* s[:k]
str_prefix(s, k) == SubSeq(s, 1, IF k < Len(s) THEN k ELSE Len(s))

\* s[k:]
str_from(s, k) == SubSeq(s, k + 1, Len(s))

\* s[-k:]
str_suffix(s, k) == SubSeq(s, IF Len(s) > k THEN Len(s) - k + 1 ELSE 1, Len(s))

\* str.isdigit(): non-empty and every character a digit.
isdigit(s) ==
    /\ Len(s) > 0
    /\ \A i \in 1..Len(s) : ord(s[i]) >= 48 /\ ord(s[i]) <= 57

\* int(s) for a string of decimal digits.
RECURSIVE int(_)
int(s) ==
    IF Len(s) = 0 THEN 0
    ELSE 10 * int(SubSeq(s, 1, Len(s) - 1)) + (ord(s[Len(s)]) - 48)

\* Python's s1 < s2 on str: lexicographic by code point, a proper prefix first.
RECURSIVE str_lt(_, _)
str_lt(s1, s2) ==
    IF Len(s2) = 0 THEN FALSE
    ELSE IF Len(s1) = 0 THEN TRUE
    ELSE IF ord(s1[1]) < ord(s2[1]) THEN TRUE
    ELSE IF ord(s1[1]) > ord(s2[1]) THEN FALSE
    ELSE str_lt(Tail(s1), Tail(s2))

\* The type tags the code tests for.
T_array   == <<"[", "]">>
T_bool    == <<"b", "o", "o", "l">>
T_uint    == <<"u", "i", "n", "t">>
T_int     == <<"i", "n", "t">>
T_address == <<"a", "d", "d", "r", "e", "s", "s">>
T_byte    == <<"b", "y", "t", "e">>
T_bytes   == <<"b", "y", "t", "e", "s">>
T_string  == <<"s", "t", "r", "i", "n", "g">>

\* The width of a storage slot in bits.
SlotBits == 256

\* A property's value, or the AssertionError it raised.
Ok(n) == [kind |-> "ok", val |-> n]
AssertionError == [kind |-> "AssertionError", val |-> 0]

\* ------------------------------------------------------- Variable.num_bits

\* A slip of the bytesN rule: the size taken as bits, not bytes.
num_bits_bytes_as_bits(type) ==
    IF str_suffix(type, 2) = T_array THEN Ok(256)
    ELSE IF type = T_bool THEN Ok(8)
    ELSE IF str_prefix(type, 4) = T_uint THEN
        IF Len(str_from(type, 4)) = 0 THEN Ok(256)
        ELSE IF ~isdigit(str_from(type, 4)) THEN AssertionError
        ELSE Ok(int(str_from(type, 4)))
    ELSE IF str_prefix(type, 3) = T_int THEN
        IF Len(str_from(type, 3)) = 0 THEN Ok(256)
        ELSE IF ~isdigit(str_from(type, 3)) THEN AssertionError
        ELSE Ok(int(str_from(type, 3)))
    ELSE IF type = T_address THEN Ok(160)
    ELSE IF type = T_byte THEN Ok(8)
    ELSE IF type = T_bytes THEN Ok(256)
    ELSE IF str_prefix(type, 5) = T_bytes THEN
        IF ~isdigit(str_from(type, 5)) THEN AssertionError
        ELSE Ok(int(str_from(type, 5)))
    ELSE IF type = T_string THEN Ok(256)
    ELSE AssertionError

\* A slip of the last rule: an unrecognized type taken as a full word.
num_bits_lenient(type) ==
    IF str_suffix(type, 2) = T_array THEN Ok(256)
    ELSE IF type = T_bool THEN Ok(8)
    ELSE IF str_prefix(type, 4) = T_uint THEN
        IF Len(str_from(type, 4)) = 0 THEN Ok(256)
        ELSE IF ~isdigit(str_from(type, 4)) THEN AssertionError
        ELSE Ok(int(str_from(type, 4)))
    ELSE IF str_prefix(type, 3) = T_int THEN
        IF Len(str_from(type, 3)) = 0 THEN Ok(256)
        ELSE IF ~isdigit(str_from(type, 3)) THEN AssertionError
        ELSE Ok(int(str_from(type, 3)))
    ELSE IF type = T_address THEN Ok(160)
    ELSE IF type = T_byte THEN Ok(8)
    ELSE IF type = T_bytes THEN Ok(256)
    ELSE IF str_prefix(type, 5) = T_bytes THEN
        IF ~isdigit(str_from(type, 5)) THEN AssertionError
        ELSE Ok(int(str_from(type, 5)) * 8)
    ELSE Ok(256)

\* Variable.num_bits of pack_struct.py.
num_bits(type) ==
    IF str_suffix(type, 2) = T_array THEN Ok(256)
    ELSE IF type = T_bool THEN Ok(8)
    ELSE IF str_prefix(type, 4) = T_uint THEN
        IF Len(str_from(type, 4)) = 0 THEN Ok(256)
        ELSE IF ~isdigit(str_from(type, 4)) THEN AssertionError
        ELSE Ok(int(str_from(type, 4)))
    ELSE IF str_prefix(type, 3) = T_int THEN
        IF Len(str_from(type, 3)) = 0 THEN Ok(256)
        ELSE IF ~isdigit(str_from(type, 3)) THEN AssertionError
        ELSE Ok(int(str_from(type, 3)))
    ELSE IF type = T_address THEN Ok(160)
    ELSE IF type = T_byte THEN Ok(8)
    ELSE IF type = T_bytes THEN Ok(256)
    ELSE IF str_prefix(type, 5) = T_bytes THEN
        IF ~isdigit(str_from(type, 5)) THEN AssertionError
        ELSE Ok(int(str_from(type, 5)) * 8)
    ELSE IF type = T_string THEN Ok(256)
    ELSE AssertionError

\* Variable.num_bits of pack_structs.py (the second copy of the class).
structs_num_bits(type) ==
    IF str_suffix(type, 2) = T_array THEN Ok(256)
    ELSE IF type = T_bool THEN Ok(8)
    ELSE IF str_prefix(type, 4) = T_uint THEN
        IF Len(str_from(type, 4)) = 0 THEN Ok(256)
        ELSE IF ~isdigit(str_from(type, 4)) THEN AssertionError
        ELSE Ok(int(str_from(type, 4)))
    ELSE IF str_prefix(type, 3) = T_int THEN
        IF Len(str_from(type, 3)) = 0 THEN Ok(256)
        ELSE IF ~isdigit(str_from(type, 3)) THEN AssertionError
        ELSE Ok(int(str_from(type, 3)))
    ELSE IF type = T_address THEN Ok(160)
    ELSE IF type = T_byte THEN Ok(8)
    ELSE IF type = T_bytes THEN Ok(256)
    ELSE IF str_prefix(type, 5) = T_bytes THEN
        IF ~isdigit(str_from(type, 5)) THEN AssertionError
        ELSE Ok(int(str_from(type, 5)) * 8)
    ELSE IF type = T_string THEN Ok(256)
    ELSE AssertionError

\* ------------------------------------------- VariablesPermutation.num_slots

\* A Variable is [type |-> str, name |-> str]; a permutation is a sequence of them.

\* A slip of the accumulator's start: the current slot taken as empty, not full.
pack_init_empty == [num_slots |-> 0, current_size |-> 0]

\* num_slots = 0; current_size = 256
pack_init == [num_slots |-> 0, current_size |-> SlotBits]

\* A slip of the comparison: an exact fill opens a new slot.
pack_step_ge(st, var_size) ==
    IF st.current_size + var_size >= SlotBits
    THEN [num_slots |-> st.num_slots + 1, current_size |-> var_size]
    ELSE [num_slots |-> st.num_slots, current_size |-> st.current_size + var_size]

\* One iteration of the loop of num_slots, after var_size = var.num_bits.
pack_step(st, var_size) ==
    IF st.current_size + var_size > SlotBits
    THEN [num_slots |-> st.num_slots + 1, current_size |-> var_size]
    ELSE [num_slots |-> st.num_slots, current_size |-> st.current_size + var_size]

RECURSIVE num_slots_loop(_, _, _)
num_slots_loop(self, i, st) ==
    IF i > Len(self) THEN Ok(st.num_slots)
    ELSE LET var_size == num_bits(self[i].type)
         IN  IF var_size.kind # "ok" THEN AssertionError
             ELSE num_slots_loop(self, i + 1, pack_step(st, var_size.val))

\* VariablesPermutation.num_slots of pack_struct.py.
num_slots(self) == num_slots_loop(self, 1, pack_init)

\* One iteration of the loop of num_slots in pack_structs.py.
structs_pack_step(st, var_size) ==
    IF st.current_size + var_size > SlotBits
    THEN [num_slots |-> st.num_slots + 1, current_size |-> var_size]
    ELSE [num_slots |-> st.num_slots, current_size |-> st.current_size + var_size]

RECURSIVE structs_num_slots_loop(_, _, _)
structs_num_slots_loop(self, i, st) ==
    IF i > Len(self) THEN Ok(st.num_slots)
    ELSE LET var_size == structs_num_bits(self[i].type)
         IN  IF var_size.kind # "ok" THEN AssertionError
             ELSE structs_num_slots_loop(self, i + 1, structs_pack_step(st, var_size.val))

\* VariablesPermutation.num_slots of pack_structs.py.
structs_num_slots(self) ==
    structs_num_slots_loop(self, 1, [num_slots |-> 0, current_size |-> SlotBits])

\* A slip of the comparison in calc_num_slots: an exact fill opens a new slot.
calc_step_ge(st, var_size) ==
    IF st.current_size + var_size >= SlotBits
    THEN [num_slots |-> st.num_slots + 1, current_size |-> var_size]
    ELSE [num_slots |-> st.num_slots, current_size |-> st.current_size + var_size]

\* One iteration of the loop of calc_num_slots.
calc_step(st, var_size) ==
    IF st.current_size + var_size > SlotBits
    THEN [num_slots |-> st.num_slots + 1, current_size |-> var_size]
    ELSE [num_slots |-> st.num_slots, current_size |-> st.current_size + var_size]

RECURSIVE calc_num_slots_loop(_, _, _)
calc_num_slots_loop(permutation, i, st) ==
    IF i > Len(permutation) THEN Ok(st.num_slots)
    ELSE LET var_size == structs_num_bits(permutation[i].type)
         IN  IF var_size.kind # "ok" THEN AssertionError
             ELSE calc_num_slots_loop(permutation, i + 1, calc_step(st, var_size.val))

\* calc_num_slots of pack_structs.py.
calc_num_slots(permutation) ==
    calc_num_slots_loop(permutation, 1, [num_slots |-> 0, current_size |-> SlotBits])

\* p.num_slots in the program named impl.
slots_in(impl, p) ==
    IF impl = "pack_struct" THEN num_slots(p) ELSE structs_num_slots(p)

\* ------------------------------------------------ VariablesPermutation.__lt__

Min2(a, b) == IF a < b THEN a ELSE b

\* A slip of the loop: only the first names are compared.
lt_first_name_only(self, other) ==
    IF Min2(Len(self), Len(other)) = 0 THEN Len(self) < Len(other)
    ELSE str_lt(self[1].name, other[1].name)

RECURSIVE lt_loop(_, _, _)
lt_loop(self, other, i) ==
    IF i > Min2(Len(self), Len(other)) THEN Len(self) < Len(other)
    ELSE IF str_lt(self[i].name, other[i].name) THEN TRUE
    ELSE IF str_lt(other[i].name, self[i].name) THEN FALSE
    ELSE lt_loop(self, other, i + 1)

\* VariablesPermutation.__lt__ (the same text in both files).
lt(self, other) == lt_loop(self, other, 1)

\* VariablesPermutation.__eq__ (the same text in both files).
eq(self, other) ==
    /\ Len(self) = Len(other)
    /\ \A i \in 1..Len(self) : self[i].name = other[i].name

\* ------------------------------------------------------------------ main

\* seq without its i-th element.
without(seq, i) == SubSeq(seq, 1, i - 1) \o SubSeq(seq, i + 1, Len(seq))

\* Every sequence of seqs with x put in front.
each_after(x, seqs) == [j \in 1..Len(seqs) |-> <<x>> \o seqs[j]]

RECURSIVE arrangements(_, _)
RECURSIVE arrangements_heads(_, _, _)
\* The arrangements whose first element is iterable[i], iterable[i+1], ...
arrangements_heads(iterable, r, i) ==
    IF i > Len(iterable) THEN <<>>
    ELSE each_after(iterable[i], arrangements(without(iterable, i), r - 1))
             \o arrangements_heads(iterable, r, i + 1)

\* itertools.permutations(iterable, r): the r-length arrangements, in the order
\* it yields them (lexicographic in the positions of the input).
arrangements(iterable, r) ==
    IF r = 0 THEN << <<>> >>
    ELSE arrangements_heads(iterable, r, 1)

\* A slip of the enumeration: arrangements one element short.
permutations_short(iterable) ==
    arrangements(iterable, IF Len(iterable) = 0 THEN 0 ELSE Len(iterable) - 1)

\* itertools.permutations(variables): r defaults to the length of the input.
itertools_permutations(iterable) == arrangements(iterable, Len(iterable))

\* The key of max(), min() and filter(), lambda p: p.num_slots, of every
\* permutation of the list.
keys_of(impl, permutations) ==
    [i \in 1..Len(permutations) |-> slots_in(impl, permutations[i])]

RECURSIVE max_loop(_, _, _)
max_loop(keys, i, best) ==
    IF i > Len(keys) THEN best
    ELSE IF keys[i].val > keys[best].val THEN max_loop(keys, i + 1, i)
    ELSE max_loop(keys, i + 1, best)

\* max(permutations, key=...): the place of the first one of the largest key.
max_index(keys) == max_loop(keys, 2, 1)

\* A slip of min(): the key forgotten, the first permutation returned.
first_index(keys) == 1

RECURSIVE min_loop(_, _, _)
min_loop(keys, i, best) ==
    IF i > Len(keys) THEN best
    ELSE IF keys[i].val < keys[best].val THEN min_loop(keys, i + 1, i)
    ELSE min_loop(keys, i + 1, best)

\* min(permutations, key=...): the place of the first one of the smallest key.
min_index(keys) == min_loop(keys, 2, 1)

\* filter(lambda p: p.num_slots == min_slots, permutations)
filter_min(permutations, keys, min_slots) ==
    LET kept == SelectSeq([i \in 1..Len(permutations) |-> i],
                          LAMBDA i : keys[i].val = min_slots)
    IN  [j \in 1..Len(kept) |-> permutations[kept[j]]]

\* The place of x in a descending list: after every element that is not less
\* than x (so after its equals: the sort is stable), before the first that is.
RECURSIVE insert_place(_, _, _)
insert_place(list, x, j) ==
    IF j > Len(list) THEN j
    ELSE IF lt(list[j], x) THEN j
    ELSE insert_place(list, x, j + 1)

insert_desc(list, x) ==
    LET j == insert_place(list, x, 1)
    IN  SubSeq(list, 1, j - 1) \o <<x>> \o SubSeq(list, j, Len(list))

\* A slip of the sort: ascending (reverse=True forgotten).
RECURSIVE sorted_ascending(_)
sorted_ascending(iterable) ==
    IF Len(iterable) = 0 THEN <<>>
    ELSE LET rest == sorted_ascending(SubSeq(iterable, 1, Len(iterable) - 1))
             x == iterable[Len(iterable)]
             less == SelectSeq(rest, LAMBDA y : ~lt(x, y))
             more == SelectSeq(rest, LAMBDA y : lt(x, y))
         IN  less \o <<x>> \o more

\* sorted(iterable, reverse=True): a stable sort that calls only __lt__;
\* descending, elements that compare equal kept in their original order.
RECURSIVE sorted_reverse(_)
sorted_reverse(iterable) ==
    IF Len(iterable) = 0 THEN <<>>
    ELSE insert_desc(sorted_reverse(SubSeq(iterable, 1, Len(iterable) - 1)),
                     iterable[Len(iterable)])

\* "original slots" of the report: VariablesPermutation(variables).num_slots in
\* pack_struct.py, calc_num_slots(variables) in pack_structs.py.
original_slots_of(impl, variables) ==
    IF impl = "pack_struct" THEN num_slots(variables) ELSE calc_num_slots(variables)

\* Lines 102-108 on the list of permutations: what main() prints, or the
\* error that ends it.
report(impl, variables, permutations) ==
    LET keys == keys_of(impl, permutations)
    IN  IF \E i \in 1..Len(keys) : keys[i].kind # "ok"
        THEN [kind |-> "AssertionError", winner |-> <<>>,
              original_slots |-> 0, min_slots |-> 0, max_slots |-> 0]
        ELSE LET max_slots == keys[max_index(keys)].val
                 min_slots == keys[min_index(keys)].val
                 sorted == sorted_reverse(filter_min(permutations, keys, min_slots))
             IN  [kind |-> "ok", winner |-> sorted[Len(sorted)],
                  original_slots |-> original_slots_of(impl, variables).val,
                  min_slots |-> min_slots, max_slots |-> max_slots]

\* A whole run of main() on an input.
search(impl, variables) ==
    CHOOSE r \in { report(impl, variables, permutations) :
                       permutations \in {itertools_permutations(variables)} } : TRUE

\* ------------------------------------------------------------- the inputs

\* The longest input of a run of main().
MaxVars == 3
\* The longest ordering that num_slots is stepped through.
MaxPackLen == 4

Var(type, name) == [type |-> type, name |-> name]

uint128 == T_uint \o <<"1", "2", "8">>
uint256 == T_uint \o <<"2", "5", "6">>
uint8   == T_uint \o <<"8">>
uint0   == T_uint \o <<"0">>
uintx   == T_uint \o <<"x">>
bytes33 == T_bytes \o <<"3", "3">>
foo     == <<"f", "o", "o">>

\* The variables an input of main() is drawn from: scenario variables of the
\* specification, a name used with two types, a zero width, an unrecognized
\* type and a width suffix that is not a number.
VarPool ==
    { Var(uint128, <<"a">>), Var(uint128, <<"b">>), Var(uint256, <<"x">>),
      Var(T_bool, <<"y">>), Var(uint8, <<"a">>), Var(foo, <<"x", "y">>),
      Var(uint0, <<"B">>), Var(uintx, <<"z">>) }

SeqsUpTo(S, n) == UNION { [1..k -> S] : k \in 0..n }

Inputs == SeqsUpTo(VarPool, MaxVars)

Impls == {"pack_struct", "pack_structs"}

\* The orderings of seq: the same variables, each as often, in any order.
Rearrangements(seq) ==
    LET n == Len(seq)
        Bijections == { f \in [1..n -> 1..n] : \A i, j \in 1..n : f[i] = f[j] => i = j }
    IN  { [i \in 1..n |-> seq[f[i]]] : f \in Bijections }

\* The longest input of the two runs that are compared.
MaxTwiceVars == 3

\* The variables the compared runs draw from: one name with two types among them.
TwicePool ==
    { Var(uint128, <<"a">>), Var(uint8, <<"a">>), Var(uint128, <<"b">>),
      Var(T_bool, <<"x">>) }

TwiceInputs == SeqsUpTo(TwicePool, MaxTwiceVars)

\* The variables the stepped orderings draw from (num_slots reads only the type).
PackPool ==
    { Var(T_bool, <<"v">>), Var(uint128, <<"v">>), Var(uint256, <<"v">>),
      Var(uint0, <<"v">>), Var(bytes33, <<"v">>), Var(foo, <<"v">>) }

PackInputs == SeqsUpTo(PackPool, MaxPackLen)

PackFns == {"num_slots", "structs_num_slots", "calc_num_slots"}

\* The type tags num_bits is called on: every head with every tail, as a type
\* and as an array of it.
TagHeads ==
    { <<>>, T_bool, T_uint, T_int, T_address, T_byte, T_bytes, T_string, foo }
TagTails ==
    { <<>>, <<"0">>, <<"8">>, <<"0", "8">>, <<"3", "2">>, <<"1", "2", "8">>,
      <<"2", "5", "6">>, <<"x">>, <<"1", "x">> }
Tags == { h \o t \o a : h \in TagHeads, t \in TagTails, a \in { <<>>, T_array } }

\* ------------------------------------------------------------------ state

VARIABLES
    pc,            \* main(): the statement reached
    impl,          \* main(): which of the two programs runs
    variables,     \* main(): the parsed input
    permutations,  \* main(): the local of that name
    max_slots,     \* main(): the local of that name
    min_slots,     \* main(): the local of that name
    winner,        \* main(): permutations[-1] of lines 105-106
    output,        \* main(): what has been printed
    first_input,   \* two runs: the input of the first run
    second_input,  \* two runs: the same variables in another order
    first_result,  \* two runs: what the first run printed, once it has run
    second_result, \* two runs: what the second run printed, once it has run
    p_fn,          \* num_slots loop: which of the three copies runs
    p_self,        \* num_slots loop: the ordering
    p_i,           \* num_slots loop: the index of the next variable
    p_st,          \* num_slots loop: num_slots and current_size
    p_pc,          \* num_slots loop: "loop", "done" or "error"
    p_slot_of,     \* history: the slot count after each variable was placed
    b_type,        \* num_bits: the type tag
    b_fn,          \* num_bits: which copy was called
    b_result       \* num_bits: what the call returned, once made

mainVars == <<pc, impl, variables, permutations, max_slots, min_slots, winner, output>>
twiceVars == <<first_input, second_input, first_result, second_result>>
packVars == <<p_fn, p_self, p_i, p_st, p_pc, p_slot_of>>
bitsVars == <<b_type, b_fn, b_result>>
vars == <<mainVars, twiceVars, packVars, bitsVars>>

MainIdle ==
    /\ pc = "idle" /\ impl = "none" /\ variables = <<>> /\ permutations = <<>>
    /\ max_slots = 0 /\ min_slots = 0 /\ winner = <<>> /\ output = <<>>
TwiceIdle ==
    /\ first_input = <<>> /\ second_input = <<>>
    /\ first_result = <<>> /\ second_result = <<>>
PackIdle ==
    /\ p_fn = "none" /\ p_self = <<>> /\ p_i = 0 /\ p_st = pack_init
    /\ p_pc = "idle" /\ p_slot_of = <<>>
BitsIdle == b_type = <<>> /\ b_fn = "none" /\ b_result = <<>>

\* ----------------------------------------------------------------- main()

Init ==
    /\ pc = "permute"
    /\ impl \in Impls
    /\ variables \in Inputs
    /\ permutations = <<>>
    /\ max_slots = 0 /\ min_slots = 0
    /\ winner = <<>>
    /\ output = <<>>
    /\ TwiceIdle /\ PackIdle /\ BitsIdle

\* permutations = [VariablesPermutation(p) for p in itertools.permutations(variables)]
Permute ==
    /\ pc = "permute"
    /\ permutations' = itertools_permutations(variables)
    /\ pc' = "max"
    /\ UNCHANGED <<impl, variables, max_slots, min_slots, winner, output>>
    /\ UNCHANGED <<twiceVars, packVars, bitsVars>>

\* max_slots = max(permutations, key=lambda p: p.num_slots).num_slots
MaxSlots ==
    /\ pc = "max"
    /\ LET keys == keys_of(impl, permutations)
       IN  /\ \A i \in 1..Len(keys) : keys[i].kind = "ok"
           /\ max_slots' = keys[max_index(keys)].val
    /\ pc' = "min"
    /\ UNCHANGED <<impl, variables, permutations, min_slots, winner, output>>
    /\ UNCHANGED <<twiceVars, packVars, bitsVars>>

\* The key of max() raises: an assert of num_bits fails, main() ends.
MaxSlotsRaises ==
    /\ pc = "max"
    /\ LET keys == keys_of(impl, permutations)
       IN  ~(\A i \in 1..Len(keys) : keys[i].kind = "ok")
    /\ pc' = "AssertionError"
    /\ UNCHANGED <<impl, variables, permutations, max_slots, min_slots, winner, output>>
    /\ UNCHANGED <<twiceVars, packVars, bitsVars>>

\* min_slots = min(permutations, key=lambda p: p.num_slots).num_slots
MinSlots ==
    /\ pc = "min"
    /\ LET keys == keys_of(impl, permutations)
       IN  min_slots' = keys[min_index(keys)].val
    /\ pc' = "sort"
    /\ UNCHANGED <<impl, variables, permutations, max_slots, winner, output>>
    /\ UNCHANGED <<twiceVars, packVars, bitsVars>>

\* permutations = sorted(filter(lambda p: p.num_slots == min_slots, permutations),
\*                       reverse=True)
FilterSort ==
    /\ pc = "sort"
    /\ permutations' = sorted_reverse(filter_min(permutations,
                                                 keys_of(impl, permutations),
                                                 min_slots))
    /\ pc' = "format"
    /\ UNCHANGED <<impl, variables, max_slots, min_slots, winner, output>>
    /\ UNCHANGED <<twiceVars, packVars, bitsVars>>

\* winning_order_function, winning_order_type: both render permutations[-1]
Format ==
    /\ pc = "format"
    /\ Len(permutations) > 0
    /\ winner' = permutations[Len(permutations)]
    /\ pc' = "print"
    /\ UNCHANGED <<impl, variables, permutations, max_slots, min_slots, output>>
    /\ UNCHANGED <<twiceVars, packVars, bitsVars>>

\* print(f'original slots: ... min slots: ... max slots: ... {winning order}')
PrintReport ==
    /\ pc = "print"
    /\ output' = Append(output,
                        [original_slots |-> original_slots_of(impl, variables).val,
                         min_slots |-> min_slots,
                         max_slots |-> max_slots,
                         winning_order |-> winner])
    /\ pc' = "done"
    /\ UNCHANGED <<impl, variables, permutations, max_slots, min_slots, winner>>
    /\ UNCHANGED <<twiceVars, packVars, bitsVars>>

Next ==
    \/ Permute
    \/ MaxSlots
    \/ MaxSlotsRaises
    \/ MinSlots
    \/ FilterSort
    \/ Format
    \/ PrintReport

Spec == Init /\ [][Next]_vars

\* ---------------------------------------------------- main(), run twice

InitTwice ==
    /\ pc = "idle" /\ impl = "pack_struct" /\ variables = <<>> /\ permutations = <<>>
    /\ max_slots = 0 /\ min_slots = 0 /\ winner = <<>> /\ output = <<>>
    /\ first_input \in TwiceInputs
    /\ second_input \in Rearrangements(first_input)
    /\ first_result = <<>>
    /\ second_result = <<>>
    /\ PackIdle /\ BitsIdle

\* pack_struct.py is run on the input.
RunFirst ==
    /\ first_result = <<>>
    /\ first_result' = <<search(impl, first_input)>>
    /\ UNCHANGED <<first_input, second_input, second_result>>
    /\ UNCHANGED <<mainVars, packVars, bitsVars>>

\* The program is run again, on the same variables in the other order.
RunSecond ==
    /\ first_result # <<>>
    /\ second_result = <<>>
    /\ second_result' = <<search(impl, second_input)>>
    /\ UNCHANGED <<first_input, second_input, first_result>>
    /\ UNCHANGED <<mainVars, packVars, bitsVars>>

NextTwice ==
    \/ RunFirst
    \/ RunSecond

SpecTwice == InitTwice /\ [][NextTwice]_vars

\* ------------------------------------------- the loop of num_slots, stepped

\* var.num_bits in the copy of the loop named fn.
bits_in(fn, type) ==
    IF fn = "num_slots" THEN num_bits(type) ELSE structs_num_bits(type)

\* The body of the loop in the copy named fn.
step_in(fn, st, var_size) ==
    IF fn = "num_slots" THEN pack_step(st, var_size)
    ELSE IF fn = "structs_num_slots" THEN structs_pack_step(st, var_size)
    ELSE calc_step(st, var_size)

InitPack ==
    /\ p_fn \in PackFns
    /\ p_self \in PackInputs
    /\ p_i = 1
    /\ p_st = IF p_fn = "num_slots" THEN pack_init
              ELSE [num_slots |-> 0, current_size |-> SlotBits]
    /\ p_pc = "loop"
    /\ p_slot_of = <<>>
    /\ MainIdle /\ TwiceIdle /\ BitsIdle

\* for var in self: var_size = var.num_bits; then the if/else
PackVariable ==
    /\ p_pc = "loop"
    /\ p_i <= Len(p_self)
    /\ bits_in(p_fn, p_self[p_i].type).kind = "ok"
    /\ p_st' = step_in(p_fn, p_st, bits_in(p_fn, p_self[p_i].type).val)
    /\ p_slot_of' = Append(p_slot_of, p_st'.num_slots)
    /\ p_i' = p_i + 1
    /\ UNCHANGED <<p_fn, p_self, p_pc>>
    /\ UNCHANGED <<mainVars, twiceVars, bitsVars>>

\* for var in self: var.num_bits raises
PackRaises ==
    /\ p_pc = "loop"
    /\ p_i <= Len(p_self)
    /\ bits_in(p_fn, p_self[p_i].type).kind # "ok"
    /\ p_pc' = "AssertionError"
    /\ UNCHANGED <<p_fn, p_self, p_i, p_st, p_slot_of>>
    /\ UNCHANGED <<mainVars, twiceVars, bitsVars>>

\* return num_slots
PackReturn ==
    /\ p_pc = "loop"
    /\ p_i > Len(p_self)
    /\ p_pc' = "done"
    /\ UNCHANGED <<p_fn, p_self, p_i, p_st, p_slot_of>>
    /\ UNCHANGED <<mainVars, twiceVars, bitsVars>>

NextPack ==
    \/ PackVariable
    \/ PackRaises
    \/ PackReturn

SpecPack == InitPack /\ [][NextPack]_vars

\* ------------------------------------------------------ num_bits, called

InitBits ==
    /\ b_type \in Tags
    /\ b_fn = "none"
    /\ b_result = <<>>
    /\ MainIdle /\ TwiceIdle /\ PackIdle

\* Variable(type, name).num_bits in pack_struct.py
CallNumBits ==
    /\ b_fn = "none"
    /\ b_fn' = "pack_struct"
    /\ b_result' = <<num_bits(b_type)>>
    /\ UNCHANGED b_type
    /\ UNCHANGED <<mainVars, twiceVars, packVars>>

\* Variable(type, name).num_bits in pack_structs.py
CallStructsNumBits ==
    /\ b_fn = "none"
    /\ b_fn' = "pack_structs"
    /\ b_result' = <<structs_num_bits(b_type)>>
    /\ UNCHANGED b_type
    /\ UNCHANGED <<mainVars, twiceVars, packVars>>

NextBits ==
    \/ CallNumBits
    \/ CallStructsNumBits

SpecBits == InitBits /\ [][NextBits]_vars

\* ===================================================================
\* The properties.
\* ===================================================================

\* ---- the rule table of the specification, stated on its own

HasPrefix(s, pre) == Len(s) >= Len(pre) /\ SubSeq(s, 1, Len(pre)) = pre
HasSuffix(s, suf) == Len(s) >= Len(suf) /\ SubSeq(s, Len(s) - Len(suf) + 1, Len(s)) = suf
After(s, pre) == SubSeq(s, Len(pre) + 1, Len(s))
DigitChars == <<"0", "1", "2", "3", "4", "5", "6", "7", "8", "9">>
AllDigits(s) == \A i \in 1..Len(s) : \E d \in 1..10 : s[i] = DigitChars[d]
DigitValue(c) == (CHOOSE d \in 1..10 : DigitChars[d] = c) - 1
RECURSIVE DecimalFrom(_, _)
DecimalFrom(s, acc) ==
    IF Len(s) = 0 THEN acc ELSE DecimalFrom(Tail(s), 10 * acc + DigitValue(Head(s)))
Decimal(s) == DecimalFrom(s, 0)

\* The width the rule table gives a type tag, -1 when no rule matches it.
RuleWidth(t) ==
    IF HasSuffix(t, T_array) THEN 256
    ELSE IF t = T_bool THEN 8
    ELSE IF HasPrefix(t, T_uint) /\ AllDigits(After(t, T_uint))
         THEN (IF After(t, T_uint) = <<>> THEN 256 ELSE Decimal(After(t, T_uint)))
    ELSE IF HasPrefix(t, T_int) /\ AllDigits(After(t, T_int))
         THEN (IF After(t, T_int) = <<>> THEN 256 ELSE Decimal(After(t, T_int)))
    ELSE IF t = T_address THEN 160
    ELSE IF t = T_byte THEN 8
    ELSE IF HasPrefix(t, T_bytes) /\ AllDigits(After(t, T_bytes))
         THEN (IF After(t, T_bytes) = <<>> THEN 256 ELSE 8 * Decimal(After(t, T_bytes)))
    ELSE IF t = T_string THEN 256
    ELSE -1

Recognized(t) == RuleWidth(t) # -1

Types(seq) == [i \in 1..Len(seq) |-> seq[i].type]
Widths(seq) == [i \in 1..Len(seq) |-> RuleWidth(seq[i].type)]

RECURSIVE SumOf(_, _)
\* The sum of ws[i] over the positions i in I.
SumOf(ws, I) ==
    IF I = {} THEN 0
    ELSE LET i == CHOOSE j \in I : TRUE IN ws[i] + SumOf(ws, I \ {i})

\* How often v occurs in seq.
Count(seq, v) == Cardinality({ i \in 1..Len(seq) : seq[i] = v })

\* The slot count of every ordering of the input, in the running program.
SlotCounts == { slots_in(impl, p).val : p \in Rearrangements(variables) }

\* ---- C1

\* C1: for a non-empty input of recognized types, min_slots is the minimum of
\* num_slots over all orderings of the input, and the winner's num_slots is
\* min_slots, in the report it prints as in main()'s locals.
C1_MinSlotsIsMinimum ==
    (Len(variables) > 0 /\ pc = "done") =>
        /\ output[1].min_slots \in SlotCounts
        /\ \A n \in SlotCounts : output[1].min_slots <= n
        /\ slots_in(impl, output[1].winning_order) = Ok(output[1].min_slots)
        /\ min_slots = output[1].min_slots
        /\ winner = output[1].winning_order

\* A run that ended on an input whose given order is not a cheapest one.
C1_Witness ==
    /\ pc = "done"
    /\ Len(variables) = 3
    /\ slots_in(impl, variables).val > min_slots
    /\ slots_in(impl, winner).val = min_slots

\* ---- C2

\* p's names come before q's in the lexicographic order of the name sequences.
NamesBefore(p, q) ==
    \E k \in 1..Len(p) :
        /\ \A j \in 1..(k - 1) : p[j].name = q[j].name
        /\ str_lt(p[k].name, q[k].name)

\* C2: the winner is lexicographically smallest by name among the minimal-slot
\* orderings: none of them compares less than it with __lt__, none has a name
\* sequence before its; for [uint128 b, uint128 a] the winner is [a, b].
C2_WinnerIsSmallest ==
    pc = "done" =>
        /\ \A p \in Rearrangements(variables) :
              slots_in(impl, p).val = output[1].min_slots =>
                  /\ ~lt(p, output[1].winning_order)
                  /\ ~NamesBefore(p, output[1].winning_order)
        /\ variables = <<Var(uint128, <<"b">>), Var(uint128, <<"a">>)>> =>
              output[1].winning_order = <<Var(uint128, <<"a">>), Var(uint128, <<"b">>)>>

\* The run on [uint128 b, uint128 a] chose [a, b].
C2_Witness ==
    /\ pc = "done"
    /\ variables = <<Var(uint128, <<"b">>), Var(uint128, <<"a">>)>>
    /\ output[1].winning_order = <<Var(uint128, <<"a">>), Var(uint128, <<"b">>)>>

\* ---- C3

BothRan == first_result # <<>> /\ second_result # <<>>

\* C3 as stated: two runs on the same variables in any two orders print the
\* same winning order, whatever the names.
C3_SameWinnerAnyInput ==
    BothRan => first_result[1].winner = second_result[1].winner

\* Variables of one name have one type.
NamesFixTypes(seq) ==
    \A i, j \in 1..Len(seq) : seq[i].name = seq[j].name => seq[i].type = seq[j].type

\* C3 amended: two runs on the same variables in any two orders print winning
\* orders with the same names in the same places (equal under __eq__) and the
\* same slot counts; the winning orders are the same sequence of (type, name)
\* pairs provided variables that share a name share their type.
C3_SameWinnerWhenNamesFixTypes ==
    BothRan =>
        /\ first_result[1].kind = second_result[1].kind
        /\ first_result[1].min_slots = second_result[1].min_slots
        /\ first_result[1].max_slots = second_result[1].max_slots
        /\ eq(first_result[1].winner, second_result[1].winner)
        /\ NamesFixTypes(first_input) =>
              first_result[1].winner = second_result[1].winner

\* Two runs on three differently named variables given in different orders.
C3_Witness ==
    /\ BothRan
    /\ Len(first_input) = 3
    /\ first_input # second_input
    /\ NamesFixTypes(first_input)
    /\ \A i, j \in 1..3 : i # j => first_input[i].name # first_input[j].name
    /\ first_result[1].kind = "ok"
    /\ first_result[1].winner = second_result[1].winner

\* ---- C4

\* C4 as stated: num_slots of a non-empty sequence is at least 1, for every
\* width num_bits can return.
C4_AtLeastOneSlot ==
    (p_pc = "done" /\ Len(p_self) > 0) => p_st.num_slots >= 1

\* C4 amended: num_slots is at least 1 when some variable has a width of at
\* least 1; a sequence of zero-width variables only takes 0 slots.
C4_AtLeastOneSlotIfSomeWidth ==
    p_pc = "done" =>
        /\ (\E i \in 1..Len(p_self) : RuleWidth(p_self[i].type) >= 1)
              => p_st.num_slots >= 1
        /\ (\A i \in 1..Len(p_self) : RuleWidth(p_self[i].type) = 0)
              => p_st.num_slots = 0

\* A zero-width variable first, then one that opens the first slot.
C4_Witness ==
    /\ p_pc = "done"
    /\ Len(p_self) = 2
    /\ p_self[1].type = uint0
    /\ p_self[2].type = T_bool
    /\ p_st.num_slots = 1

\* ---- C5

\* C5: num_bits gives a type tag the width of the first rule that matches it:
\* [] 256, bool 8, uintN/intN N or 256, address 160, byte 8, bytes 256,
\* bytesN 8*N, string 256; so in both copies, whichever was called.
C5_RuleTable ==
    b_result # <<>> =>
        LET t == b_type
            r == b_result[1]
            N(pre) == After(t, pre)
        IN  /\ HasSuffix(t, T_array) => r = Ok(256)
            /\ ~HasSuffix(t, T_array) =>
                  /\ t = T_bool => r = Ok(8)
                  /\ t = T_uint => r = Ok(256)
                  /\ (HasPrefix(t, T_uint) /\ N(T_uint) # <<>> /\ AllDigits(N(T_uint)))
                        => r = Ok(Decimal(N(T_uint)))
                  /\ t = T_int => r = Ok(256)
                  /\ (HasPrefix(t, T_int) /\ N(T_int) # <<>> /\ AllDigits(N(T_int)))
                        => r = Ok(Decimal(N(T_int)))
                  /\ t = T_address => r = Ok(160)
                  /\ t = T_byte => r = Ok(8)
                  /\ t = T_bytes => r = Ok(256)
                  /\ (HasPrefix(t, T_bytes) /\ N(T_bytes) # <<>> /\ AllDigits(N(T_bytes)))
                        => r = Ok(8 * Decimal(N(T_bytes)))
                  /\ t = T_string => r = Ok(256)

\* bytes32 in the second copy: 32 bytes, a full word.
C5_Witness ==
    /\ b_fn = "pack_structs"
    /\ b_type = T_bytes \o <<"3", "2">>
    /\ b_result = <<Ok(256)>>

\* ---- C6

HasBadType(seq) == \E i \in 1..Len(seq) : ~Recognized(seq[i].type)

\* C6: when a variable of the input has a type no rule matches, or a width
\* suffix that is not a number, main() ends with the error before it prints
\* anything: no winner, no slot counts, and no other end.
C6_BadTypeAborts ==
    (Len(variables) > 0 /\ HasBadType(variables)) =>
        /\ pc \in {"permute", "max", "AssertionError"}
        /\ output = <<>>
        /\ winner = <<>>
        /\ pc = "max" => (ENABLED MaxSlotsRaises /\ ~ENABLED MaxSlots)

\* The error, with the unrecognized type last after two good variables.
C6_Witness ==
    /\ pc = "AssertionError"
    /\ Len(variables) = 3
    /\ Recognized(variables[1].type)
    /\ Recognized(variables[2].type)
    /\ variables[3].type = foo
    /\ output = <<>>

\* ---- C7

\* C7: the report has min_slots <= original_slots <= max_slots, original_slots
\* being num_slots of the input as given.
C7_OriginalBetweenMinAndMax ==
    pc = "done" =>
        /\ output[1].min_slots <= output[1].original_slots
        /\ output[1].original_slots <= output[1].max_slots
        /\ output[1].original_slots = slots_in(impl, variables).val

\* A report of pack_structs.py whose given order is the worst one.
C7_Witness ==
    /\ pc = "done"
    /\ impl = "pack_structs"
    /\ output[1].min_slots < output[1].max_slots
    /\ output[1].original_slots = output[1].max_slots

\* ---- C8

\* C8: the winning order has the length of the input and each variable
\* (type and name) as often as the input has it.
C8_WinnerIsRearrangement ==
    pc \in {"print", "done"} =>
        /\ Len(winner) = Len(variables)
        /\ \A v \in VarPool : Count(winner, v) = Count(variables, v)
        /\ pc = "done" => output[1].winning_order = winner

\* A winner that reorders an input in which one variable occurs twice.
C8_Witness ==
    /\ pc = "done"
    /\ Len(variables) = 3
    /\ variables[1] = variables[3]
    /\ variables[1] # variables[2]
    /\ winner # variables

\* ---- C9

\* The widths placed in the slot that is current before variable i is placed.
PlacedBefore(i) ==
    SumOf(Widths(p_self), { j \in 1..(i - 1) : p_slot_of[j] = p_slot_of[i - 1] })

SlotBefore(i) == IF i = 1 THEN 0 ELSE p_slot_of[i - 1]

\* C9: num_slots is a next-fit count. With a slot open, a variable joins it
\* exactly when the widths placed in it plus its own are at most 256 and
\* otherwise opens the next one; with none open a variable of some width opens
\* the first. The count never decreases, grows by at most 1 per variable, and
\* an earlier slot gets nothing more. The four examples give 3, 2, 2 and 1.
C9_NextFit ==
    /\ p_pc \in {"loop", "done"} =>
          /\ Len(p_slot_of) = p_i - 1
          /\ p_st.num_slots = SlotBefore(p_i)
          /\ p_st.num_slots >= 1 => p_st.current_size = PlacedBefore(p_i)
          /\ \A i \in 1..Len(p_slot_of) :
                LET w == RuleWidth(p_self[i].type)
                IN  /\ p_slot_of[i] \in {SlotBefore(i), SlotBefore(i) + 1}
                    /\ SlotBefore(i) >= 1 =>
                          (p_slot_of[i] = SlotBefore(i) <=> PlacedBefore(i) + w <= 256)
                    /\ (SlotBefore(i) = 0 /\ w >= 1) => p_slot_of[i] = 1
    /\ p_pc = "done" =>
          /\ Types(p_self) = <<uint128, uint256, uint128>> => p_st.num_slots = 3
          /\ Types(p_self) = <<uint128, uint128, uint128>> => p_st.num_slots = 2
          /\ Types(p_self) = <<uint256, T_bool>> => p_st.num_slots = 2
          /\ Types(p_self) = <<T_bool, uint256>> => p_st.num_slots = 2
          /\ Types(p_self) = <<T_bool, T_bool, T_bool, T_bool>> => p_st.num_slots = 1

\* [uint128, uint256, uint128]: the last one would fit the first slot, and
\* opens a third.
C9_Witness ==
    /\ p_pc = "done"
    /\ Types(p_self) = <<uint128, uint256, uint128>>
    /\ p_slot_of = <<1, 2, 3>>

\* ---- C10

\* The variables can be put in k groups, each of widths summing to at most 256.
FitsInGroups(ws, k) ==
    \E f \in [1..Len(ws) -> 1..k] :
        \A g \in 1..k : SumOf(ws, { i \in 1..Len(ws) : f[i] = g }) <= 256

\* The optimal bin-packing count.
FewestGroups(ws) ==
    CHOOSE k \in 0..Len(ws) :
        /\ FitsInGroups(ws, k)
        /\ \A j \in 0..(k - 1) : ~FitsInGroups(ws, j)

\* C10: for an input whose widths are all between 1 and 256, min_slots is the
\* smallest number of groups of at most 256 bits the variables can be put in.
C10_MinSlotsIsBinPackingOptimum ==
    (/\ pc = "done"
     /\ \A i \in 1..Len(variables) :
           RuleWidth(variables[i].type) >= 1 /\ RuleWidth(variables[i].type) <= 256)
        => output[1].min_slots = FewestGroups(Widths(variables))

\* Three variables that two slots hold, given in an order that takes three.
C10_Witness ==
    /\ pc = "done"
    /\ Len(variables) = 3
    /\ \A i \in 1..3 : RuleWidth(variables[i].type) \in 1..256
    /\ output[1].original_slots = 3
    /\ output[1].min_slots = 2
    /\ FewestGroups(Widths(variables)) = 2

====
